---- MODULE Spec2Model ----
(***************************************************************************)
(* A model of sandlersteam's State (src/src/sandlersteam/state.py) and of  *)
(* the single-phase interpolation engine UnsaturatedSteamTable             *)
(* (src/src/sandlersteam/unsatd.py).                                       *)
(*                                                                         *)
(* Spec: one State object is followed through caller assignments,         *)
(* lookup() and direct calls of _get_statespec / _check_saturation.        *)
(* SpecObjects: the State objects of a process by identity (construction,  *)
(* clone, children, the shared tables, delta).  Property values            *)
(* are magnitudes in the default units, scaled to integers; the tables are *)
(* small grids with the shape the loaders build (pressure blocks of        *)
(* ascending temperature rows, a saturation row first in a block).         *)
(***************************************************************************)
EXTENDS Integers, Sequences, FiniteSets, TLC

VARIABLES
    objs,         \* the State objects constructed so far, by identity (1, 2, ...)
    caches,       \* the _cache dict objects constructed so far, by identity
    _instance,    \* the module global _instance: None or the tables object
    built,        \* how many tables objects get_tables() has constructed
    held,         \* the State objects the caller holds, by handle
    nops,         \* operations the caller has made on the objects
    olast,        \* the last operation on the objects and what it did
    slots,        \* the State's T, P, v, u, h, s, x
    cache,        \* State._cache, as the set of its keys
    input_state,  \* State._input_state: None or the snapshot of the slots
    Liquid,       \* the attribute State.Liquid: Absent or the child's slots
    Vapor,        \* the attribute State.Vapor: Absent or the child's slots
    order,        \* iteration order of the frozenset _STATE_VAR_FIELDS in this process
    nassign,      \* number of caller assignments so far (bounded)
    clean,        \* history: a lookup() completed and the caller assigned no slot since
    inputs,       \* history: the statespec of the last completed _resolve()
    since,        \* history: the caller's assignments since the last completed _resolve()
    given,        \* history: the slots the caller has set and not set back to None
    last          \* history: the last operation and what it did

\* the variables of the several-objects view and of the single-object view
ovars == <<objs, caches, _instance, built, held, nops, olast>>
svars == <<slots, cache, input_state, Liquid, Vapor, nassign, clean, inputs, since, given, last>>
vars == <<objs, caches, _instance, built, held, nops, olast,
          slots, cache, input_state, Liquid, Vapor, order, nassign, clean, inputs, since,
          given, last>>

----------------------------------------------------------------------------
(* Values *)

\* Python's None in a slot
None == -9999
\* numpy's nan
NaN == -9998
\* a child attribute that was never set (hasattr is False)
Absent == <<>>

IsNum(a) == a # None /\ a # NaN

\* float comparisons: any comparison with nan is False
Lt(a, b) == a # NaN /\ b # NaN /\ a < b
Le(a, b) == a # NaN /\ b # NaN /\ a <= b
Gt(a, b) == Lt(b, a)
Ge(a, b) == Le(b, a)
FEq(a, b) == a # NaN /\ b # NaN /\ a = b

\* the quality x is held in halves: XUnit stands for x = 1.0
XUnit == 2

\* maximum number of caller assignments in a behaviour
MaxAssign == 3

LARGE == 1000
TCC == 5
PCMPA == 10

_STATE_VAR_ORDERED_FIELDS == <<"T", "P", "v", "s", "h", "u">>
_STATE_VAR_FIELDS == {"T", "P", "v", "s", "h", "u"}
AllFields == _STATE_VAR_FIELDS \cup {"x"}
Thetas == {"v", "u", "s", "h"}

Reverse(q) == [i \in 1..Len(q) |-> q[Len(q) + 1 - i]]
\* orders in which the frozenset may iterate (string hashing is per process)
FieldOrders == {_STATE_VAR_ORDERED_FIELDS, Reverse(_STATE_VAR_ORDERED_FIELDS)}

SeqToSet(q) == {q[i] : i \in 1..Len(q)}
Has(q, n) == \E i \in 1..Len(q) : q[i] = n

----------------------------------------------------------------------------
(* numpy.interp(x, xp, fp, left, right) on non-empty sequences (an empty   *)
(* xp raises ValueError; the callers test for it).  The search is the one  *)
(* numpy does: below xp[0] gives left, above the last point gives right,   *)
(* otherwise the segment j with xp[j] <= x < xp[j+1].                      *)

MinOf(S) == CHOOSE a \in S : \A b \in S : a <= b
MaxOf(S) == CHOOSE a \in S : \A b \in S : a >= b

\* the points the linear search stops at: the first one is the end of the segment
InterpPast(x, xp) == {i \in 1..Len(xp) : ~Ge(x, xp[i])}

\* the segment index numpy's search returns (0 = below the first point)
InterpIndex(x, xp) ==
    IF Gt(x, xp[Len(xp)]) THEN Len(xp) + 1
    ELSE IF Lt(x, xp[1]) THEN 0
    ELSE IF InterpPast(x, xp) = {} THEN Len(xp)
    ELSE MinOf(InterpPast(x, xp)) - 1

\* the value on segment j
InterpSeg(x, xp, fp, left, right, j) ==
    IF j = 0 THEN left
    ELSE IF j = Len(xp) + 1 THEN right
    ELSE IF j = Len(xp) THEN fp[j]
    ELSE IF xp[j] = x THEN fp[j]
    ELSE IF ~IsNum(fp[j]) \/ ~IsNum(fp[j + 1]) \/ ~IsNum(xp[j]) \/ ~IsNum(xp[j + 1]) THEN NaN
    ELSE fp[j] + ((fp[j + 1] - fp[j]) * (x - xp[j])) \div (xp[j + 1] - xp[j])

Interp(x, xp, fp, left, right) ==
    IF x = NaN THEN NaN
    ELSE IF Len(xp) = 1
    THEN (IF Lt(x, xp[1]) THEN left ELSE IF Gt(x, xp[1]) THEN right ELSE fp[1])
    ELSE InterpSeg(x, xp, fp, left, right, InterpIndex(x, xp))

\* numpy.interp with left=nan, right=nan
InterpNaN(x, xp, fp) == Interp(x, xp, fp, NaN, NaN)

\* numpy.interp with the default fill: the end values
InterpClamp(x, xp, fp) == Interp(x, xp, fp, fp[1], fp[Len(fp)])

----------------------------------------------------------------------------
(* Table data.  Every property is linear in T and P, so that linear and    *)
(* bilinear interpolation are exact on the integer grid.  The saturation   *)
(* curve is P = 2 T; TCC and PCMPA lie beyond the last saturation row.     *)

Offset(d) == CASE d = "v" -> 0 [] d = "u" -> 100 [] d = "h" -> 200 [] d = "s" -> 300

SatLiquid(d, T) == Offset(d) + 20 + 10 * T
SatVapor(d, T) == Offset(d) + 60 + 10 * T
SuphValue(d, T, P) == Offset(d) + 60 + 18 * T - 4 * P
SubcValue(d, T, P) == Offset(d) + 20 + 12 * T - P

SuphRow(T, P) ==
    [T |-> T, P |-> P, v |-> SuphValue("v", T, P), u |-> SuphValue("u", T, P),
     h |-> SuphValue("h", T, P), s |-> SuphValue("s", T, P)]
SubcRow(T, P) ==
    [T |-> T, P |-> P, v |-> SubcValue("v", T, P), u |-> SubcValue("u", T, P),
     h |-> SubcValue("h", T, P), s |-> SubcValue("s", T, P)]

\* UnsaturatedSteamTable('V').data: the pressure blocks, each ascending in T with
\* its saturation row first, concatenated
SuphData ==
    <<SuphRow(1, 2), SuphRow(2, 2), SuphRow(4, 2), SuphRow(6, 2),
      SuphRow(3, 6), SuphRow(4, 6), SuphRow(6, 6)>>
\* UnsaturatedSteamTable('L').data: the saturation row is the last of its block
SubcData ==
    <<SubcRow(0, 6), SubcRow(1, 6), SubcRow(2, 6), SubcRow(3, 6),
      SubcRow(0, 10), SubcRow(2, 10), SubcRow(4, 10)>>

Columns == <<"T", "P", "v", "u", "h", "s">>
ColumnSet == {"T", "P", "v", "u", "h", "s"}

\* np.sort(np.array(list(set(column))))
RECURSIVE SortSet(_)
SortSet(S) ==
    IF S = {} THEN <<>>
    ELSE <<MinOf(S)>> \o SortSet(S \ {MinOf(S)})

Uniqs(df, d) == SortSet({df[i][d] : i \in 1..Len(df)})

\* df[df[col] == val], in row order
Filter(df, col, val) == SelectSeq(df, LAMBDA r : FEq(r[col], val))

Col(df, d) == [i \in 1..Len(df) |-> df[i][d]]

----------------------------------------------------------------------------
(* The saturation tables (SaturatedSteamTables): DF['T'] and DF['P'], rows *)
(* ascending in the index property, each with the matched other property   *)
(* and the liquid and vapor values of v, u, h, s.                          *)

SatRow(T) ==
    [T |-> T, P |-> 2 * T,
     vL |-> SatLiquid("v", T), vV |-> SatVapor("v", T),
     uL |-> SatLiquid("u", T), uV |-> SatVapor("u", T),
     hL |-> SatLiquid("h", T), hV |-> SatVapor("h", T),
     sL |-> SatLiquid("s", T), sV |-> SatVapor("s", T)]

\* satd.DF[p]: the temperature table and the pressure table hold the same rows here
SatDF == <<SatRow(1), SatRow(3)>>

\* satd.lim[p] = (min, max) of the index column
SatLim(p) == <<SatDF[1][p], SatDF[Len(SatDF)][p]>>

SatInLim(p, x) == Le(SatLim(p)[1], x) /\ Le(x, SatLim(p)[2])

\* the column name of property d in phase ph ("L", "V", or "" for T and P)
SatCol(d, ph) ==
    CASE ph = "" -> d
      [] d = "v" /\ ph = "L" -> "vL" [] d = "v" /\ ph = "V" -> "vV"
      [] d = "u" /\ ph = "L" -> "uL" [] d = "u" /\ ph = "V" -> "uV"
      [] d = "h" /\ ph = "L" -> "hL" [] d = "h" /\ ph = "V" -> "hV"
      [] d = "s" /\ ph = "L" -> "sL" [] d = "s" /\ ph = "V" -> "sV"

\* satd.interpolators[p][d + ph](x), for x within satd.lim[p]: piecewise linear
SatInterp(p, d, ph, x) == InterpNaN(x, Col(SatDF, p), Col(SatDF, SatCol(d, ph)))

\* an interpolator of the saturation tables called outside satd.lim[p] raises
SatRaises(p, x) == ~SatInLim(p, x)

----------------------------------------------------------------------------
(* UnsaturatedSteamTable.TPBilinear.  A result is [err, val]: err is the   *)
(* exception raised ("none" when the call returns) and val the retdict.    *)

Raise(e) == [err |-> e, val |-> <<>>]
Return(v) == [err |-> "none", val |-> v]

\* the adjacent pairs (q[i], q[i+1]) of a sorted sequence that strictly bracket x
Brackets(q, x) == {i \in 1..(Len(q) - 1) : Lt(q[i], x) /\ Lt(x, q[i + 1])}
\* the pair at which the for loop breaks
FirstBracket(q, x) == MinOf(Brackets(q, x))

\* [T for T in LT if T in RT]
Common(LT, RT) == SelectSeq(LT, LAMBDA t : \E i \in 1..Len(RT) : FEq(RT[i], t))

\* the block is tabulated at P: each column interpolated along T, nan outside the block
TPExactBlock(tdf, xi, yi) ==
    [d \in ColumnSet |->
        IF d = "T" THEN xi ELSE IF d = "P" THEN yi
        ELSE InterpNaN(xi, Col(tdf, "T"), Col(tdf, d))]

\* column d at the common temperature T, interpolated between the two blocks at P = yi
TPAlongP(d, T, yi, X, LDF, RDF) ==
    InterpNaN(yi, X, <<Filter(LDF, "T", T)[1][d], Filter(RDF, "T", T)[1][d]>>)

\* xi is a common temperature of the two blocks
TPCommonRow(xi, yi, X, LDF, RDF) ==
    [d \in ColumnSet |->
        IF d = "T" THEN xi ELSE IF d = "P" THEN yi
        ELSE TPAlongP(d, xi, yi, X, LDF, RDF)]

\* xi lies between the common temperatures TL and TR
TPBracketed(xi, yi, X, LDF, RDF, TL, TR) ==
    [d \in ColumnSet |->
        IF d = "T" THEN xi ELSE IF d = "P" THEN yi
        ELSE InterpClamp(xi, <<TL, TR>>,
                         <<TPAlongP(d, TL, yi, X, LDF, RDF), TPAlongP(d, TR, yi, X, LDF, RDF)>>)]

\* CT: the common temperatures of the bracketing blocks
TPInBlocks(xi, yi, X, LDF, RDF, CT) ==
    IF Has(CT, xi) THEN Return(TPCommonRow(xi, yi, X, LDF, RDF))
    ELSE IF Brackets(CT, xi) = {}
    THEN (IF Len(CT) = 0 THEN Raise("IndexError") ELSE Raise("Exception"))
    ELSE Return(TPBracketed(xi, yi, X, LDF, RDF,
                            CT[FirstBracket(CT, xi)], CT[FirstBracket(CT, xi) + 1]))

\* LDF, RDF: the blocks at the bracketing pressures PL < yi < PR
TPBlocks(xi, yi, PL, PR, LDF, RDF) ==
    TPInBlocks(xi, yi, <<PL, PR>>, LDF, RDF, Common(Col(LDF, "T"), Col(RDF, "T")))

\* uP: self.uniqs['P']
TPBetweenBlocks(df, xi, yi, uP) ==
    IF Brackets(uP, yi) = {} THEN Raise("Exception")
    ELSE TPBlocks(xi, yi, uP[FirstBracket(uP, yi)], uP[FirstBracket(uP, yi) + 1],
                  Filter(df, "P", uP[FirstBracket(uP, yi)]),
                  Filter(df, "P", uP[FirstBracket(uP, yi) + 1]))

TPBilinear(df, xi, yi) ==
    IF Filter(df, "P", yi) # <<>> THEN Return(TPExactBlock(Filter(df, "P", yi), xi, yi))
    ELSE TPBetweenBlocks(df, xi, yi, Uniqs(df, "P"))

----------------------------------------------------------------------------
(* UnsaturatedSteamTable.TThBilinear, PThBilinear, ThThBilinear, Bilinear  *)

MinSeq(q) == MinOf(SeqToSet(q))
MaxSeq(q) == MaxOf(SeqToSet(q))

\* Y.min() < yi < Y.max() for the column yn of the rows tdf
RangeHolds(tdf, yn, yi) == Lt(MinSeq(Col(tdf, yn)), yi) /\ Lt(yi, MaxSeq(Col(tdf, yn)))

\* the pressures, in the order swept, of the blocks whose yn range strictly holds yi
TThRetained(df, Ps, yn, yi) == SelectSeq(Ps, LAMBDA P : RangeHolds(Filter(df, "P", P), yn, yi))

\* LLdat[d]: column d of each retained block, interpolated at T = xi
TThLLdat(df, Ps, xi, d) ==
    [i \in 1..Len(Ps) |->
        IF d = "P" THEN Ps[i]
        ELSE InterpNaN(xi, Col(Filter(df, "P", Ps[i]), "T"), Col(Filter(df, "P", Ps[i]), d))]

\* Ps: the retained blocks, X: LLdat[yn]
TThInterp(df, xi, yn, yi, Ps, X) ==
    IF Len(X) = 0 THEN Raise("ValueError")
    ELSE Return([d \in ColumnSet |->
            IF d = "T" THEN xi ELSE IF d = yn THEN yi
            ELSE InterpClamp(yi, X, TThLLdat(df, Ps, xi, d))])

TThSweep(df, xi, yn, yi, Ps) == TThInterp(df, xi, yn, yi, Ps, TThLLdat(df, Ps, xi, yn))

\* the blocks are swept in decreasing pressure
TThBilinear(df, xi, yn, yi) ==
    TThSweep(df, xi, yn, yi, TThRetained(df, Reverse(Uniqs(df, "P")), yn, yi))

\* one block interpolated against yn = yi, nan outside the block's range
PThBlock(tdf, yn, yi, pp) == InterpNaN(yi, Col(tdf, yn), Col(tdf, pp))

\* P is tabulated: the retdict has no key P; T is first set to xi, then overwritten
PThExact(tdf, yn, yi) ==
    [pp \in ColumnSet \ {"P"} |-> IF pp = yn THEN yi ELSE PThBlock(tdf, yn, yi, pp)]

PThBetween(xi, yn, yi, PL, PR, ldf, rdf) ==
    [pp \in ColumnSet \ {"P"} |->
        IF pp = yn THEN yi
        ELSE InterpNaN(xi, <<PL, PR>>, <<PThBlock(ldf, yn, yi, pp), PThBlock(rdf, yn, yi, pp)>>)]

PThBlocks(df, xi, yn, yi, uP) ==
    IF Has(uP, xi) THEN Return(PThExact(Filter(df, "P", xi), yn, yi))
    ELSE IF Brackets(uP, xi) = {} THEN Raise("Exception")
    ELSE Return(PThBetween(xi, yn, yi, uP[FirstBracket(uP, xi)], uP[FirstBracket(uP, xi) + 1],
                           Filter(df, "P", uP[FirstBracket(uP, xi)]),
                           Filter(df, "P", uP[FirstBracket(uP, xi) + 1])))

PThBilinear(df, xi, yn, yi) == PThBlocks(df, xi, yn, yi, Uniqs(df, "P"))

\* whether some temperature row's yn values strictly hold yi, so that LLdat[yn],
\* first an empty list, is overwritten by a scalar
ThThScalar(df, yn, yi) ==
    \E T \in SeqToSet(Uniqs(df, "T")) : RangeHolds(Filter(df, "T", T), yn, yi)

\* the first retdict entry is numpy.interp(yi, LLdat[yn], LLdat['T']) with LLdat['T']
\* the array of distinct temperatures: numpy raises ValueError for xp a scalar
\* (depth 0) and for xp an empty list (no sample points); the assert on entry fails
\* when a key is T or P
ThThBilinear(df, xn, xi, yn, yi) ==
    IF xn \in {"T", "P"} \/ yn \in {"T", "P"} THEN Raise("AssertionError")
    ELSE IF ThThScalar(df, yn, yi) THEN Raise("ValueError") ELSE Raise("ValueError")

\* specdict is the ordered pair xn: xi, yn: yi
Bilinear(df, xn, xi, yn, yi) ==
    IF xn = "T" /\ yn = "P" THEN TPBilinear(df, xi, yi)
    ELSE IF xn = "T" THEN TThBilinear(df, xi, yn, yi)
    ELSE IF xn = "P" THEN PThBilinear(df, xi, yn, yi)
    ELSE ThThBilinear(df, xn, xi, yn, yi)

----------------------------------------------------------------------------
(* State: _get_statespec, _check_saturation                                *)

\* [p for p in _STATE_VAR_FIELDS if getattr(self, p) is not None], in iteration order
SetNames(sl, ord) == SelectSeq(ord, LAMBDA f : sl[f] # None)

\* [err, val]: ValueError, or the list of the specified names
_get_statespec(sl, ord) ==
    IF sl["x"] # None
    THEN IF sl["T"] = None /\ sl["P"] = None THEN Raise("ValueError")
         ELSE Return(Append(SetNames(sl, ord), "x"))
    ELSE IF Len(SetNames(sl, ord)) # 2 THEN Raise("ValueError")
         ELSE Return(SetNames(sl, ord))

Critical(p) == IF p = "T" THEN TCC ELSE PCMPA

\* op = specs[0] if specs[1] == p else specs[1]
OtherProp(specs, p) == IF specs[2] = p THEN specs[1] ELSE specs[2]

\* the comparison with the end points included
BetweenInclusive(th, op_valL, op_valV) ==
    (Le(op_valL, th) /\ Le(th, op_valV)) \/ (Le(op_valV, th) /\ Le(th, op_valL))

\* op_valL < th < op_valV or op_valV < th < op_valL
StrictlyBetween(th, op_valL, op_valV) ==
    (Lt(op_valL, th) /\ Lt(th, op_valV)) \/ (Lt(op_valV, th) /\ Lt(th, op_valL))

\* the anchor p = v with the other property op = th
CheckAnchor(p, v, op, th) ==
    IF Gt(v, Critical(p)) THEN FALSE
    ELSE IF ~SatInLim(p, v) THEN FALSE
    ELSE StrictlyBetween(th, SatInterp(p, op, "L", v), SatInterp(p, op, "V", v))

\* the quality counts only when exactly one of T and P is given with it
_check_saturation_x_with_one_anchor(sl, specs) ==
    IF Has(specs, "x") THEN Has(specs, "T") # Has(specs, "P")
    ELSE IF Has(specs, "T") /\ ~Has(specs, "P")
    THEN CheckAnchor("T", sl["T"], OtherProp(specs, "T"), sl[OtherProp(specs, "T")])
    ELSE IF Has(specs, "P") /\ ~Has(specs, "T")
    THEN CheckAnchor("P", sl["P"], OtherProp(specs, "P"), sl[OtherProp(specs, "P")])
    ELSE FALSE

_check_saturation(sl, specs) ==
    IF Has(specs, "x") THEN TRUE
    ELSE IF Has(specs, "T") /\ ~Has(specs, "P")
    THEN CheckAnchor("T", sl["T"], OtherProp(specs, "T"), sl[OtherProp(specs, "T")])
    ELSE IF Has(specs, "P") /\ ~Has(specs, "T")
    THEN CheckAnchor("P", sl["P"], OtherProp(specs, "P"), sl[OtherProp(specs, "P")])
    ELSE FALSE

----------------------------------------------------------------------------
(* State: the resolution paths.  An object is [slots, Liquid, Vapor]; a    *)
(* path returns the object as the call leaves it, with err the exception   *)
(* raised ("none" when it returns) and grid the single-phase grid queried. *)

Data(grid) == IF grid = "subc" THEN SubcData ELSE SuphData

Done(st, grid) == [slots |-> st.slots, Liquid |-> st.Liquid, Vapor |-> st.Vapor,
                   err |-> "none", grid |-> grid]
\* every slot reset when a resolution path raises
FailReset(st, e, grid) == [slots |-> [f \in AllFields |-> None], Liquid |-> st.Liquid,
                           Vapor |-> st.Vapor, err |-> e, grid |-> grid]

\* a resolution path raises before its first setattr: the object is as it was
Fail(st, e, grid) == [slots |-> st.slots, Liquid |-> st.Liquid, Vapor |-> st.Vapor,
                      err |-> e, grid |-> grid]

\* for p, v in retdict.items(): if p not in specs and p != 'x': setattr(self, p, v)
SetFromRetdict(sl, val, specs) ==
    [f \in AllFields |->
        IF f \in DOMAIN val /\ ~Has(specs, f) /\ f # "x" THEN val[f] ELSE sl[f]]

\* a Bilinear call's exception propagates; its retdict is written to the slots
ApplyRetdict(st, specs, grid, ret) ==
    IF ret.err # "none" THEN Fail(st, ret.err, grid)
    ELSE Done([st EXCEPT !.slots = SetFromRetdict(st.slots, ret.val, specs)], grid)

\* Psat: the saturation pressure at T, LARGE when T is not strictly inside satd.lim['T']
SatPressure(T) ==
    IF Lt(SatLim("T")[1], T) /\ Lt(T, SatLim("T")[2]) THEN SatInterp("T", "P", "", T)
    ELSE LARGE

\* the subcooled grid also at the saturation pressure itself
TPGridAtOrAbove(T, P) == IF Ge(P, SatPressure(T)) THEN "subc" ELSE "suph"

\* the grid _resolve_at_T_and_P queries
TPGrid(T, P) == IF Gt(P, SatPressure(T)) THEN "subc" ELSE "suph"

TPResolve(st, T, P, grid) ==
    ApplyRetdict(st, <<"T", "P">>, grid, Bilinear(Data(grid), "T", T, "P", P))

_resolve_at_T_and_P(st) ==
    TPResolve(st, st.slots["T"], st.slots["P"], TPGrid(st.slots["T"], st.slots["P"]))

\* the grid for the anchor p = v below its critical value: "none" stands for the
\* ValueError 'Specified state is saturated'
ThetaGrid(th, thL, thV) ==
    IF Lt(th, thL) THEN "subc" ELSE IF Gt(th, thV) THEN "suph" ELSE "none"

\* supercritical only above the critical value
TorPGridAboveCritical(p, v, op, th) ==
    IF Gt(v, Critical(p)) THEN (IF p = "T" THEN "suph" ELSE "subc")
    ELSE IF SatRaises(p, v) THEN "raise"
    ELSE ThetaGrid(th, SatInterp(p, op, "L", v), SatInterp(p, op, "V", v))

\* the grid _resolve_at_TorP_and_Theta queries, "raise" when a saturation interpolator
\* raises and "none" when the state is found saturated
TorPGrid(p, v, op, th) ==
    IF Ge(v, Critical(p)) THEN (IF p = "T" THEN "suph" ELSE "subc")
    ELSE IF SatRaises(p, v) THEN "raise"
    ELSE ThetaGrid(th, SatInterp(p, op, "L", v), SatInterp(p, op, "V", v))

TorPResolve(st, specs, p, v, op, th, grid) ==
    IF grid = "raise" \/ grid = "none" THEN Fail(st, "ValueError", "none")
    ELSE ApplyRetdict(st, specs, grid, Bilinear(Data(grid), p, v, op, th))

TorPAnchor(st, specs, p, op) ==
    TorPResolve(st, specs, p, st.slots[p], op, st.slots[op],
                TorPGrid(p, st.slots[p], op, st.slots[op]))

_resolve_at_TorP_and_Theta(st, specs) ==
    IF Has(specs, "T") THEN TorPAnchor(st, specs, "T", OtherProp(specs, "T"))
    ELSE TorPAnchor(st, specs, "P", OtherProp(specs, "P"))

\* a pair that neither grid resolves leaves the State as it is, without an error
ThetaPickSilent(st, specs, sub_try, sup_try) ==
    IF sub_try.err = "none" /\ sup_try.err # "none"
    THEN Done([st EXCEPT !.slots = SetFromRetdict(st.slots, sub_try.val, specs)], "both")
    ELSE IF sup_try.err = "none" /\ sub_try.err # "none"
    THEN Done([st EXCEPT !.slots = SetFromRetdict(st.slots, sup_try.val, specs)], "both")
    ELSE IF sup_try.err = "none" /\ sub_try.err = "none" THEN Fail(st, "ValueError", "both")
    ELSE Done(st, "both")

\* sub_try, sup_try: the two Bilinear results (an exception makes the try None)
ThetaPick(st, specs, sub_try, sup_try) ==
    IF sub_try.err = "none" /\ sup_try.err # "none"
    THEN Done([st EXCEPT !.slots = SetFromRetdict(st.slots, sub_try.val, specs)], "both")
    ELSE IF sup_try.err = "none" /\ sub_try.err # "none"
    THEN Done([st EXCEPT !.slots = SetFromRetdict(st.slots, sup_try.val, specs)], "both")
    ELSE Fail(st, "ValueError", "both")

_resolve_at_Theta1_and_Theta2(st, specs) ==
    ThetaPick(st, specs,
        Bilinear(SubcData, specs[1], st.slots[specs[1]], specs[2], st.slots[specs[2]]),
        Bilinear(SuphData, specs[1], st.slots[specs[1]], specs[2], st.slots[specs[2]]))

_resolve_unsatd(st, specs) ==
    IF Has(specs, "T") /\ Has(specs, "P") THEN _resolve_at_T_and_P(st)
    ELSE IF Has(specs, "T") \/ Has(specs, "P") THEN _resolve_at_TorP_and_Theta(st, specs)
    ELSE _resolve_at_Theta1_and_Theta2(st, specs)

\* clone(x=xval): a new State with this one's slots and x overridden
clone(sl, xval) == [sl EXCEPT !["x"] = xval]

\* the lever rule with the phases exchanged
LeverRuleSwapped(x, V, L) == (x * L + (XUnit - x) * V) \div XUnit

\* x * V + (1 - x) * L, with x in units of 1 / XUnit
LeverRule(x, V, L) == (x * V + (XUnit - x) * L) \div XUnit

\* the slots of a child after its v, u, h, s are set to the saturation values at p = v
SatChild(sl, p, v, ph) ==
    [f \in AllFields |-> IF f \in Thetas THEN SatInterp(p, f, ph, v) ELSE sl[f]]

\* sl1: the slots with the complement (and x) set; the children are cloned from them
\* and each property but the given one (keep) is set by the lever rule
SatFinish(sl1, p, v, keep, L, V) ==
    Done([slots |-> [f \in AllFields |->
                        IF f \in Thetas \ keep THEN LeverRule(sl1["x"], V[f], L[f])
                        ELSE sl1[f]],
          Liquid |-> L, Vapor |-> V], "none")

SatBuild(sl1, p, v, keep) ==
    SatFinish(sl1, p, v, keep,
              SatChild(clone(sl1, 0), p, v, "L"), SatChild(clone(sl1, XUnit), p, v, "V"))

\* the anchor taken for its own complement
ComplementSame(p) == p

Complement(p) == IF p = "T" THEN "P" ELSE "T"

\* x and one of T, P are given
SatFromX(st, p, v) ==
    IF SatRaises(p, v) THEN Fail(st, "ValueError", "none")
    ELSE SatBuild([st.slots EXCEPT ![Complement(p)] = SatInterp(p, Complement(p), "", v)],
                  p, v, {})

\* one of T, P and the property op = th are given
SatFromTheta(st, p, v, op, th, thL, thV) ==
    IF ~(Lt(MinOf({thL, thV}), th) /\ Lt(th, MaxOf({thL, thV})))
    THEN Fail(st, "ValueError", "none")
    ELSE SatBuild([st.slots EXCEPT ![Complement(p)] = SatInterp(p, Complement(p), "", v),
                                   !["x"] = (XUnit * (th - thL)) \div (thV - thL)],
                  p, v, {op})

SatAnchor(st, specs, p) ==
    IF Has(specs, "x") THEN SatFromX(st, p, st.slots[p])
    ELSE IF SatRaises(p, st.slots[p]) THEN Fail(st, "ValueError", "none")
    ELSE SatFromTheta(st, p, st.slots[p], OtherProp(specs, p), st.slots[OtherProp(specs, p)],
                      SatInterp(p, OtherProp(specs, p), "L", st.slots[p]),
                      SatInterp(p, OtherProp(specs, p), "V", st.slots[p]))

_resolve_satd(st, specs) ==
    IF Has(specs, "x") /\ ~(Has(specs, "T") \/ Has(specs, "P"))
    THEN Fail(st, "NameError", "none")
    ELSE SatAnchor(st, specs, IF Has(specs, "T") THEN "T" ELSE "P")

\* np.float64 values become Python floats, here and in the children: same magnitudes
_scalarize(st) == st

\* {field: getattr(self, field) for field in _STATE_VAR_FIELDS.union({'x'})}
_get_current_input_state(sl) == sl

\* r: what _resolve_satd or _resolve_unsatd returned
ResolveFinish(r, spec, sat, old_input_state) ==
    IF r.err # "none"
    THEN [slots |-> r.slots, Liquid |-> r.Liquid, Vapor |-> r.Vapor, err |-> r.err,
          grid |-> r.grid, spec |-> spec, sat |-> sat, input_state |-> old_input_state]
    ELSE [slots |-> _scalarize(r).slots, Liquid |-> _scalarize(r).Liquid,
          Vapor |-> _scalarize(r).Vapor, err |-> "none",
          grid |-> r.grid, spec |-> spec, sat |-> sat,
          input_state |-> _get_current_input_state(_scalarize(r).slots)]

ResolveSpec(st, spec, sat, old_input_state) ==
    ResolveFinish(IF sat THEN _resolve_satd(st, spec) ELSE _resolve_unsatd(st, spec),
                  spec, sat, old_input_state)

ResolveChecked(st, spec, old_input_state) ==
    IF spec.err # "none"
    THEN [slots |-> st.slots, Liquid |-> st.Liquid, Vapor |-> st.Vapor, err |-> spec.err,
          grid |-> "none", spec |-> <<>>, sat |-> FALSE, input_state |-> old_input_state]
    ELSE ResolveSpec(st, spec.val, _check_saturation(st.slots, spec.val), old_input_state)

\* _resolve(): the object as the call leaves it, with the statespec (spec), the
\* classification (sat) and the new _input_state (unchanged when the call raises)
_resolve(st, ord, old_input_state) ==
    ResolveChecked(st, _get_statespec(st.slots, ord), old_input_state)

----------------------------------------------------------------------------
(* The values a caller assigns *)

TVals == 0..6
PVals == {0, 2, 4, 6, 8, 10, 12}
ThetaVals(d) == IF d = "h" THEN {230, 240, 260, 280, 290} ELSE {Offset(d) + 60}
XVals == {0, 1, XUnit}

AssignVals(name) ==
    CASE name = "T" -> TVals
      [] name = "P" -> PVals
      [] name = "x" -> XVals
      [] OTHER -> ThetaVals(name)

----------------------------------------------------------------------------
(* The State object and its operations *)

\* since: the number of assignments (2 stands for more than one) and, for a single
\* one, its name, its value and whether the value is a new one (not None, not the one held)
NoAssign == [n |-> 0, name |-> "", value |-> None, fresh |-> FALSE]
NoPre == [clean |-> FALSE, inputs |-> <<>>, since |-> NoAssign]
Pre == [clean |-> clean, inputs |-> inputs, since |-> since]

\* no State object constructed yet: the module global _instance is None
NoRef == 0
Handles == {"a", "b"}
NoOp == [op |-> "init", obj |-> NoRef, other |-> NoRef, err |-> "none", ran |-> FALSE,
         sat |-> FALSE, nobjs |-> 0, kwargs |-> <<>>, delta |-> <<>>]
InitObjects ==
    /\ objs = <<>>
    /\ caches = <<>>
    /\ _instance = None
    /\ built = 0
    /\ held = [h \in Handles |-> NoRef]
    /\ nops = 0
    /\ olast = NoOp

\* State(): every slot None, an empty cache, no snapshot, no children
Init ==
    /\ InitObjects
    /\ slots = [f \in AllFields |-> None]
    /\ cache = {}
    /\ input_state = <<>>
    /\ Liquid = Absent
    /\ Vapor = Absent
    /\ order \in FieldOrders
    /\ nassign = 0
    /\ clean = FALSE
    /\ inputs = <<>>
    /\ since = NoAssign
    /\ given = {}
    /\ last = [op |-> "init", err |-> "none", ran |-> FALSE, grid |-> "none",
               spec |-> <<>>, sat |-> FALSE, pre |-> NoPre]

\* the early return for None taken before the cache is cleared
SetattrCacheSkipsNone(name, value, c) ==
    IF name \in AllFields /\ value # None THEN {} ELSE c

\* State.__setattr__ for a name of _STATE_VAR_FIELDS or x: the cache is cleared
\* whatever the value is, None included
SetattrCache(name, value, c) == IF name \in AllFields THEN {} ELSE c

\* the caller's   state.<name> = value
Setattr(name, value) ==
    /\ nassign < MaxAssign
    /\ cache' = SetattrCache(name, value, cache)
    /\ slots' = [slots EXCEPT ![name] = value]
    /\ nassign' = nassign + 1
    /\ clean' = FALSE
    /\ since' = IF since.n = 0
                THEN [n |-> 1, name |-> name, value |-> value,
                      fresh |-> (value # None /\ value # slots[name])]
                ELSE [n |-> 2, name |-> "", value |-> None, fresh |-> FALSE]
    /\ given' = IF value = None THEN given \ {name} ELSE given \cup {name}
    /\ last' = [op |-> "setattr", err |-> "none", ran |-> FALSE, grid |-> "none",
                spec |-> <<>>, sat |-> FALSE, pre |-> NoPre]
    /\ UNCHANGED <<input_state, Liquid, Vapor, order, inputs>>
    /\ UNCHANGED ovars

\* lookup() without the test of the marker
LookupAlways(c) == TRUE

\* whether lookup() calls _resolve()
LookupMiss(c) == "lookup" \notin c

\* lookup() with the marker absent: r is what _resolve() did.  The setattr calls of
\* _resolve clear the cache; the marker is set when _resolve returns
LookupResolve(r) ==
    /\ slots' = r.slots
    /\ Liquid' = r.Liquid
    /\ Vapor' = r.Vapor
    /\ input_state' = r.input_state
    /\ cache' = IF r.err = "none" THEN {"lookup"} ELSE {}
    /\ clean' = (r.err = "none")
    /\ inputs' = IF r.err = "none" THEN r.spec ELSE inputs
    /\ since' = IF r.err = "none" THEN NoAssign ELSE since
    /\ last' = [op |-> "lookup", err |-> r.err, ran |-> TRUE, grid |-> r.grid,
                spec |-> r.spec, sat |-> r.sat, pre |-> Pre]
    /\ UNCHANGED <<order, nassign, given>>
    /\ UNCHANGED ovars

\* lookup() with the marker present
LookupHit ==
    /\ last' = [op |-> "lookup", err |-> "none", ran |-> FALSE, grid |-> "none",
                spec |-> <<>>, sat |-> FALSE, pre |-> Pre]
    /\ UNCHANGED <<slots, cache, input_state, Liquid, Vapor, order, nassign, clean,
                   inputs, since, given>>
    /\ UNCHANGED ovars

\* the caller's   state.lookup()
Lookup ==
    IF LookupMiss(cache)
    THEN LookupResolve(_resolve([slots |-> slots, Liquid |-> Liquid, Vapor |-> Vapor],
                                order, input_state))
    ELSE LookupHit

\* the caller's   state._get_statespec()
GetStatespecResult(r) ==
    /\ last' = [op |-> "_get_statespec", err |-> r.err, ran |-> FALSE, grid |-> "none",
                spec |-> r.val, sat |-> FALSE, pre |-> NoPre]
    /\ UNCHANGED <<slots, cache, input_state, Liquid, Vapor, order, nassign, clean,
                   inputs, since, given>>
    /\ UNCHANGED ovars

CallGetStatespec == GetStatespecResult(_get_statespec(slots, order))

\* the caller's   state._check_saturation(specs=state._get_statespec())
CheckSaturationResult(r) ==
    /\ r.err = "none"
    /\ last' = [op |-> "_check_saturation", err |-> "none", ran |-> FALSE, grid |-> "none",
                spec |-> r.val, sat |-> _check_saturation(slots, r.val), pre |-> NoPre]
    /\ UNCHANGED <<slots, cache, input_state, Liquid, Vapor, order, nassign, clean,
                   inputs, since, given>>
    /\ UNCHANGED ovars

CallCheckSaturation == CheckSaturationResult(_get_statespec(slots, order))

Next ==
    \/ \E name \in AllFields : \E value \in AssignVals(name) \cup {None} : Setattr(name, value)
    \/ Lookup
    \/ CallGetStatespec
    \/ CallCheckSaturation

Spec == Init /\ [][Next]_vars


----------------------------------------------------------------------------
(* The State objects of a process.  A heap H holds the State objects and   *)
(* the cache dicts by identity, the global _instance and the number of     *)
(* tables objects built.  An object is [slots, cache, input_state, Liquid, *)
(* Vapor, tables]: cache, Liquid, Vapor and tables are references.         *)

\* maximum number of caller operations on the objects in a behaviour
MaxOps == 4

\* kPa per MPa: the factor of P.to('kPa')
KPaPerMPa == 1000

\* a tables object built on every call
get_tables_always(inst, b) == [instance |-> b + 1, built |-> b + 1]

\* get_tables(): the tables object is built when _instance is None, else returned
get_tables(inst, b) ==
    IF inst = None THEN [instance |-> b + 1, built |-> b + 1]
    ELSE [instance |-> inst, built |-> b]

Heap == [objs |-> objs, caches |-> caches, inst |-> _instance, built |-> built]

\* a new State with the slots sl, its own empty _cache, and tb the tables
NewState(H, sl, tb) ==
    [objs |-> Append(H.objs, [slots |-> sl, cache |-> Len(H.caches) + 1,
                              input_state |-> <<>>, Liquid |-> NoRef, Vapor |-> NoRef,
                              tables |-> tb.instance]),
     caches |-> Append(H.caches, {}),
     inst |-> tb.instance,
     built |-> tb.built]

\* State(**kwargs): __init__ and __post_init__; the new object is the last of the heap
State(H, sl) == NewState(H, sl, get_tables(H.inst, H.built))

\* kwargs: a sequence of <<name, value>> pairs
KwHas(kwargs, f) == \E i \in 1..Len(kwargs) : kwargs[i][1] = f
KwGet(kwargs, f) == kwargs[CHOOSE i \in 1..Len(kwargs) : kwargs[i][1] = f][2]

\* the slots of a clone: the source's, then the kwargs that name a slot
CloneSlots(sl, kwargs) ==
    [f \in AllFields |-> IF KwHas(kwargs, f) THEN KwGet(kwargs, f) ELSE sl[f]]

\* the clone given the source's cache dict
CloneCacheShared(src, fresh) == src

\* the cache of a clone: the dict its own construction made
CloneCache(src, fresh) == fresh

\* n: the clone, c: its cache, which the clone's setattr calls clear
CloneStore(H1, n, c) == [H1 EXCEPT !.objs[n].cache = c, !.caches[c] = {}]

\* State.clone(**kwargs) of object i: the clone is the last object of the heap
CloneObject(H, i, kwargs) ==
    CloneStore(State(H, CloneSlots(H.objs[i].slots, kwargs)), Len(H.objs) + 1,
               CloneCache(H.objs[i].cache, Len(H.caches) + 1))

\* state.<name> = value on object i
SetattrObject(H, i, name, value) ==
    [H EXCEPT !.objs[i].slots[name] = value,
              !.caches[H.objs[i].cache] = SetattrCache(name, value, @)]

\* the child objects of an earlier resolution kept and used again
ChildRefReused(old, fresh) == IF old # NoRef THEN old ELSE fresh

\* self.Liquid = self.clone(x=0.0): the attribute is bound to the new object
ChildRef(old, fresh) == fresh

\* r: what _resolve() did to object i; L, V: the children it built (NoRef: none)
StoreResolved(H, i, r, L, V) ==
    [heap |-> [H EXCEPT
                 !.objs[i] = [slots |-> r.slots, cache |-> @.cache,
                              input_state |-> r.input_state,
                              Liquid |-> IF L = NoRef THEN @.Liquid ELSE ChildRef(@.Liquid, L),
                              Vapor |-> IF V = NoRef THEN @.Vapor ELSE ChildRef(@.Vapor, V),
                              tables |-> @.tables],
                 !.caches[H.objs[i].cache] = IF r.err = "none" THEN {"lookup"} ELSE {}],
     err |-> r.err, ran |-> TRUE, sat |-> r.sat]

ResolveObject(H, i, r) ==
    IF r.Liquid = Absent THEN StoreResolved(H, i, r, NoRef, NoRef)
    ELSE StoreResolved(State(State(H, r.Liquid), r.Vapor), i, r,
                       Len(H.objs) + 1, Len(H.objs) + 2)

\* lookup() on object i
LookupObject(H, i) ==
    IF LookupMiss(H.caches[H.objs[i].cache])
    THEN ResolveObject(H, i, _resolve([slots |-> H.objs[i].slots, Liquid |-> Absent,
                                       Vapor |-> Absent], order, H.objs[i].input_state))
    ELSE [heap |-> H, err |-> "none", ran |-> FALSE, sat |-> FALSE]

\* float arithmetic: nan propagates
Sub(a, b) == IF a = NaN \/ b = NaN THEN NaN ELSE a - b
Neg(a) == IF a = NaN THEN NaN ELSE 0 - a

\* the property Pv
Pv(sl) == IF sl["P"] = NaN \/ sl["v"] = NaN THEN NaN ELSE KPaPerMPa * sl["P"] * sl["v"]

\* self minus other
delta_props_reversed(sa, sb) ==
    [k \in {p \in _STATE_VAR_FIELDS : sa[p] # None /\ sb[p] # None} \cup {"Pv"} |->
        IF k = "Pv" THEN Sub(Pv(sa), Pv(sb)) ELSE Sub(sa[k], sb[k])]

\* delta_props: other minus self for the properties set in both, and for Pv
delta_props(sa, sb) ==
    [k \in {p \in _STATE_VAR_FIELDS : sa[p] # None /\ sb[p] # None} \cup {"Pv"} |->
        IF k = "Pv" THEN Sub(Pv(sb), Pv(sa)) ELSE Sub(sb[k], sa[k])]

DeltaRaise(H, e) == [heap |-> H, err |-> e, delta |-> <<>>]

\* sa, sb: the slots after both lookups
DeltaProps(H, sa, sb) ==
    IF sa["P"] = None \/ sa["v"] = None \/ sb["P"] = None \/ sb["v"] = None
    THEN DeltaRaise(H, "AttributeError")
    ELSE [heap |-> H, err |-> "none", delta |-> delta_props(sa, sb)]

DeltaFinish(i, j, r2) ==
    IF r2.err # "none" THEN DeltaRaise(r2.heap, r2.err)
    ELSE DeltaProps(r2.heap, r2.heap.objs[i].slots, r2.heap.objs[j].slots)

DeltaOther(i, j, r1) ==
    IF r1.err # "none" THEN DeltaRaise(r1.heap, r1.err)
    ELSE DeltaFinish(i, j, LookupObject(r1.heap, j))

\* self.delta(other) for the objects i and j
delta(H, i, j) == DeltaOther(i, j, LookupObject(H, i))

----------------------------------------------------------------------------
(* The caller's operations on the objects it holds *)

Kw(n1, v1, n2, v2) ==
    [f \in AllFields |-> IF f = n1 THEN v1 ELSE IF f = n2 THEN v2 ELSE None]

\* the States a caller constructs, the assignments it makes, the kwargs it clones with
NewKwargs ==
    {Kw("T", 2, "P", 2), Kw("T", 0, "P", 2), Kw("T", 2, "x", 1), Kw("T", 2, "x", 3),
     Kw("P", 6, "h", 270)}
ObjAssigns == {<<"x", XUnit>>, <<"T", 3>>}
CloneKwargs == {<<>>, <<(<<"x", 0>>)>>, <<(<<"pressure_unit", 0>>)>>}

Store(H) ==
    /\ objs' = H.objs
    /\ caches' = H.caches
    /\ _instance' = H.inst
    /\ built' = H.built

\* a = State(**kwargs), b = State(**kwargs)
New(h, sl) ==
    /\ nops < MaxOps
    /\ held[h] = NoRef
    /\ h = "b" => held["a"] # NoRef
    /\ Store(State(Heap, sl))
    /\ held' = [held EXCEPT ![h] = Len(objs) + 1]
    /\ nops' = nops + 1
    /\ olast' = [NoOp EXCEPT !.op = "new", !.obj = Len(objs) + 1, !.nobjs = Len(objs)]
    /\ UNCHANGED <<svars, order>>

\* the caller's   a.<name> = value
SetattrOn(h, name, value) ==
    /\ nops < MaxOps
    /\ held[h] # NoRef
    /\ Store(SetattrObject(Heap, held[h], name, value))
    /\ nops' = nops + 1
    /\ olast' = [NoOp EXCEPT !.op = "setattr", !.obj = held[h], !.nobjs = Len(objs)]
    /\ UNCHANGED <<held, svars, order>>

LookupOnResult(h, r) ==
    /\ Store(r.heap)
    /\ nops' = nops + 1
    /\ olast' = [NoOp EXCEPT !.op = "lookup", !.obj = held[h], !.nobjs = Len(objs),
                             !.err = r.err, !.ran = r.ran, !.sat = r.sat]
    /\ UNCHANGED <<held, svars, order>>

\* the caller's   a.lookup()
LookupOn(h) ==
    /\ nops < MaxOps
    /\ held[h] # NoRef
    /\ LookupOnResult(h, LookupObject(Heap, held[h]))

\* the caller's   b = a.clone(**kwargs)
Clone(h, g, kwargs) ==
    /\ nops < MaxOps
    /\ held[h] # NoRef
    /\ held[g] = NoRef
    /\ Store(CloneObject(Heap, held[h], kwargs))
    /\ held' = [held EXCEPT ![g] = Len(objs) + 1]
    /\ nops' = nops + 1
    /\ olast' = [NoOp EXCEPT !.op = "clone", !.obj = Len(objs) + 1, !.other = held[h],
                             !.nobjs = Len(objs), !.kwargs = kwargs]
    /\ UNCHANGED <<svars, order>>

DeltaResult(h, g, r) ==
    /\ Store(r.heap)
    /\ nops' = nops + 1
    /\ olast' = [NoOp EXCEPT !.op = "delta", !.obj = held[h], !.other = held[g],
                             !.nobjs = Len(objs), !.err = r.err, !.delta = r.delta]
    /\ UNCHANGED <<held, svars, order>>

\* the caller's   a.delta(b)
Delta(h, g) ==
    /\ nops < MaxOps
    /\ held[h] # NoRef
    /\ held[g] # NoRef
    /\ DeltaResult(h, g, delta(Heap, held[h], held[g]))

NextObjects ==
    \/ \E h \in Handles : \E sl \in NewKwargs : New(h, sl)
    \/ \E h \in Handles : \E a \in ObjAssigns : SetattrOn(h, a[1], a[2])
    \/ \E h \in Handles : LookupOn(h)
    \/ \E h \in Handles : \E g \in Handles : \E kwargs \in CloneKwargs : Clone(h, g, kwargs)
    \/ \E h \in Handles : \E g \in Handles : Delta(h, g)

SpecObjects == Init /\ [][NextObjects]_vars

----------------------------------------------------------------------------
(* Properties *)

StateVarsSet == {f \in _STATE_VAR_FIELDS : slots[f] # None}
LookupRan == last.op = "lookup" /\ last.ran
\* the last operation is a lookup() that resolved a State specified by T and P
LookupOfTP == LookupRan /\ Len(last.spec) = 2 /\ SeqToSet(last.spec) = {"T", "P"}

\* C1 (as claimed): after a completed resolution, assigning a new value to one of its
\* inputs and calling lookup() resolves at the new pair: _get_statespec returns the
\* same input names (the derived properties are not counted) and the assigned input
\* keeps its value.
C1Case ==
    /\ LookupRan
    /\ last.pre.inputs # <<>>
    /\ last.pre.since.n = 1
    /\ last.pre.since.fresh
    /\ Has(last.pre.inputs, last.pre.since.name)
C1_ReassignedInputReresolves ==
    C1Case =>
        /\ SeqToSet(last.spec) = SeqToSet(last.pre.inputs)
        /\ slots[last.pre.since.name] = last.pre.since.value

\* C2: every assignment to T, P, v, u, h, s or x (None or the value held included)
\* leaves the cache empty, and the 'lookup' marker is in the cache only if the caller
\* assigned no such slot after the last completed _resolve().
C2_AssignmentEmptiesCache ==
    /\ last.op = "setattr" => cache = {}
    /\ "lookup" \in cache => clean
C2_Witness ==
    /\ last.op = "setattr"
    /\ inputs # <<>>
    /\ since.n = 1
    /\ ~since.fresh
    /\ cache = {}

\* C3: a lookup() on a State whose last lookup() completed, with no assignment in
\* between, does not run _resolve() and leaves every slot, the children, the snapshot
\* and the cache as they were.
C3_SecondLookupIsCacheHit ==
    [][(last'.op = "lookup" /\ clean) =>
          (~last'.ran /\ UNCHANGED <<slots, Liquid, Vapor, input_state, cache>>)]_vars
C3_Witness ==
    /\ last.op = "lookup"
    /\ ~last.ran
    /\ last.pre.clean
    /\ slots["h"] # None

\* C4 (as claimed): once the caller has set exactly two of T, P, v, u, h, s (or x and
\* one of them), and the pair is one lookup() resolves, every property reads resolved,
\* not None, without a lookup() call.
CallerGaveTwo ==
    \/ "x" \notin given /\ Cardinality(given \cap _STATE_VAR_FIELDS) = 2
    \/ "x" \in given /\ Cardinality(given \cap _STATE_VAR_FIELDS) = 1
Resolvable ==
    _resolve([slots |-> slots, Liquid |-> Liquid, Vapor |-> Vapor], order, input_state).err = "none"
C4_ResolvedWithoutLookup ==
    (CallerGaveTwo /\ (clean \/ Resolvable)) => \A f \in _STATE_VAR_FIELDS : slots[f] # None

\* C5 (as claimed): _get_statespec returns exactly when two of T, P, v, u, h, s are set
\* and x is not (the list is then those two names), or x is set with exactly one of
\* them; it raises ValueError for every other combination.
C5_StatespecAcceptsExactly ==
    last.op = "_get_statespec" =>
        /\ (last.err = "none") <=>
               \/ slots["x"] = None /\ Cardinality(StateVarsSet) = 2
               \/ slots["x"] # None /\ Cardinality(StateVarsSet) = 1
        /\ (last.err = "none" /\ slots["x"] = None) =>
               (Len(last.spec) = 2 /\ SeqToSet(last.spec) = StateVarsSet)
        /\ last.err \in {"none", "ValueError"}

\* the anchor of a specification of exactly one of T, P and one of v, u, h, s
AnchorSpec ==
    /\ slots["x"] = None
    /\ Cardinality(StateVarsSet) = 2
    /\ Cardinality(StateVarsSet \cap {"T", "P"}) = 1
Anchor == CHOOSE p \in {"T", "P"} : slots[p] # None
Theta == CHOOSE d \in Thetas : slots[d] # None
\* the saturation temperature of the anchor (the saturation curve is P = 2 T)
AnchorT == IF Anchor = "T" THEN slots["T"] ELSE slots["P"] \div 2

\* C6: for one of T, P plus one other property theta (x unset), _check_saturation
\* returns True exactly when the anchor does not exceed its critical value, lies
\* within the saturation table's limits, and theta lies strictly between the
\* saturated-liquid and saturated-vapor values at the anchor; the result is a function
\* of the current slot values.
C6_SaturationByBracket ==
    (last.op = "_check_saturation" /\ AnchorSpec) =>
        (last.sat <=>
            /\ slots[Anchor] <= Critical(Anchor)
            /\ SatLim(Anchor)[1] <= slots[Anchor]
            /\ slots[Anchor] <= SatLim(Anchor)[2]
            /\ \/ SatLiquid(Theta, AnchorT) < slots[Theta] /\ slots[Theta] < SatVapor(Theta, AnchorT)
               \/ SatVapor(Theta, AnchorT) < slots[Theta] /\ slots[Theta] < SatLiquid(Theta, AnchorT))
C6_Witness ==
    /\ last.op = "_check_saturation"
    /\ AnchorSpec
    /\ last.sat
    /\ slots["P"] # None

\* C7: _check_saturation returns True whenever x is set, and False whenever x is unset
\* and both of T and P, or neither of them, are given.
C7_SaturationByQuality ==
    last.op = "_check_saturation" =>
        /\ slots["x"] # None => last.sat
        /\ (slots["x"] = None /\ Cardinality(StateVarsSet \cap {"T", "P"}) # 1) => ~last.sat
C7_Witness ==
    /\ last.op = "_check_saturation"
    /\ slots["x"] # None
    /\ slots["T"] # None
    /\ slots["P"] # None
    /\ last.sat

\* the block pressures of a grid and the temperatures tabulated at one of them
GridPressures(grid) == {Data(grid)[i]["P"] : i \in 1..Len(Data(grid))}
BlockTemps(grid, P) ==
    {Data(grid)[i]["T"] : i \in {k \in 1..Len(Data(grid)) : Data(grid)[k]["P"] = P}}
Below(S, a) == \A b \in S : a < b
Above(S, a) == \A b \in S : a > b
\* P outside the grid's blocks, or T outside the temperatures of the block at P or,
\* for P between two blocks, of both bracketing blocks
OutOfCoverage(grid, T, P) ==
    \/ Below(GridPressures(grid), P)
    \/ Above(GridPressures(grid), P)
    \/ P \in GridPressures(grid)
         /\ (Below(BlockTemps(grid, P), T) \/ Above(BlockTemps(grid, P), T))
    \/ P \notin GridPressures(grid)
         /\ \A Q \in GridPressures(grid) :
                Below(BlockTemps(grid, Q), T) \/ Above(BlockTemps(grid, Q), T)

\* C8 (as claimed): a lookup() of a State specified by T and P with T or P outside the
\* coverage of the grid chosen raises; it never completes with nan in v, u, h or s.
C8_OutOfCoverageRaises ==
    LookupOfTP =>
        /\ OutOfCoverage(last.grid, slots["T"], slots["P"]) => last.err # "none"
        /\ last.err = "none" => \A d \in Thetas : slots[d] # NaN

\* the rows of a grid tabulated at the State's T and P
NodesAt(df) == {i \in 1..Len(df) : df[i]["T"] = slots["T"] /\ df[i]["P"] = slots["P"]}

\* C9 (as claimed): a lookup() of a State whose T and P are a node of the superheated
\* grid or of the subcooled grid completes with the v, u, h, s tabulated at the node.
C9_GridNodesRoundTrip ==
    LookupOfTP =>
        /\ \A i \in NodesAt(SuphData) :
               last.err = "none" /\ \A d \in Thetas : slots[d] = SuphData[i][d]
        /\ \A i \in NodesAt(SubcData) :
               last.err = "none" /\ \A d \in Thetas : slots[d] = SubcData[i][d]

\* C10: _resolve_at_T_and_P queries the subcooled grid exactly when T is strictly
\* inside the saturation table's temperature limits and P is strictly greater than the
\* saturation pressure at T; otherwise it queries the superheated grid.
C10_GridByPsat ==
    LookupOfTP =>
        last.grid = IF /\ SatLim("T")[1] < slots["T"]
                       /\ slots["T"] < SatLim("T")[2]
                       /\ slots["P"] > 2 * slots["T"]
                    THEN "subc" ELSE "suph"
C10_Witness ==
    /\ LookupOfTP
    /\ last.grid = "subc"
    /\ last.err = "none"

\* a lookup() step that runs _resolve()
LookupRuns == last'.op = "lookup" /\ last'.ran
\* exactly the slots of S are set
OnlySet(S) == \A f \in AllFields : (slots[f] # None) <=> (f \in S)
\* the saturation temperature of the anchor p = v
CurveT(p, v) == IF p = "T" THEN v ELSE v \div 2
\* the complement's value on the saturation curve
CurveOther(p, v) == IF p = "T" THEN 2 * v ELSE v \div 2
\* d is x V + (1 - x) L at the anchor p = v, for the quality x and the value val
OnLever(d, p, v, x, val) ==
    XUnit * val = x * SatVapor(d, CurveT(p, v)) + (XUnit - x) * SatLiquid(d, CurveT(p, v))
ChildAt(child, p, v, x, ph) ==
    /\ child # Absent
    /\ child["x"] = x
    /\ child[p] = v
    /\ child[Complement(p)] = CurveOther(p, v)
    /\ \A d \in Thetas :
          child[d] = IF ph = "L" THEN SatLiquid(d, CurveT(p, v)) ELSE SatVapor(d, CurveT(p, v))

\* C11: lookup() of a State given x and one of T, P (within the saturation table) sets
\* the complement to the saturation-curve value and each of v, u, h, s to
\* x V + (1 - x) L at the anchor, and leaves the anchor and x as given.
C11Post(p) ==
    /\ last'.err = "none"
    /\ slots'[Complement(p)] = CurveOther(p, slots[p])
    /\ \A d \in Thetas : OnLever(d, p, slots[p], slots["x"], slots'[d])
    /\ slots'[p] = slots[p]
    /\ slots'["x"] = slots["x"]
C11_QualityAndAnchor ==
    [][\A p \in {"T", "P"} :
          (LookupRuns /\ OnlySet({"x", p}) /\ SatInLim(p, slots[p])) => C11Post(p)]_vars
C11_Witness ==
    /\ LookupRan
    /\ last.err = "none"
    /\ SeqToSet(last.spec) = {"P", "x"}
    /\ slots["x"] = 1
    /\ slots["h"] = 270

\* C13 (as claimed): lookup() resolves a State given x and one of v, u, h, s with T
\* and P unset: it completes whenever theta is a value of the mixture series on the
\* saturation temperature grid, leaving T and P set.
MixtureRange(d, x) ==
    {(x * SatVapor(d, T) + (XUnit - x) * SatLiquid(d, T)) \div XUnit :
         T \in SatLim("T")[1]..SatLim("T")[2]}
C13_QualityAndTheta ==
    \A d \in Thetas :
        (LookupRan /\ inputs = <<>> /\ given = {"x", d} /\ slots[d] \in MixtureRange(d, slots["x"]))
            => (last.err = "none" /\ slots["T"] # None /\ slots["P"] # None)

\* C14: lookup() of a State given one of T, P and a theta strictly between the
\* saturated-liquid and saturated-vapor values at the anchor sets
\* x = (theta - thetaL) / (thetaV - thetaL) within 0..1, the complement from the
\* saturation curve and the other three properties by the lever rule, keeps theta, and
\* builds the Liquid and Vapor children.
C14Pre(p, d) ==
    /\ OnlySet({p, d})
    /\ SatInLim(p, slots[p])
    /\ SatLiquid(d, CurveT(p, slots[p])) < slots[d]
    /\ slots[d] < SatVapor(d, CurveT(p, slots[p]))
\* x is the quotient, to the resolution 1 / XUnit
Spread(p, d) == SatVapor(d, CurveT(p, slots[p])) - SatLiquid(d, CurveT(p, slots[p]))
C14Quality(p, d, x) ==
    /\ 0 <= x /\ x <= XUnit
    /\ x * Spread(p, d) <= XUnit * (slots[d] - SatLiquid(d, CurveT(p, slots[p])))
    /\ XUnit * (slots[d] - SatLiquid(d, CurveT(p, slots[p]))) < (x + 1) * Spread(p, d)
C14Post(p, d) ==
    /\ last'.err = "none"
    /\ C14Quality(p, d, slots'["x"])
    /\ slots'[Complement(p)] = CurveOther(p, slots[p])
    /\ \A e \in Thetas \ {d} : OnLever(e, p, slots[p], slots'["x"], slots'[e])
    /\ slots'[d] = slots[d]
    /\ slots'[p] = slots[p]
    /\ ChildAt(Liquid', p, slots[p], 0, "L")
    /\ ChildAt(Vapor', p, slots[p], XUnit, "V")
C14_QualityFromTheta ==
    [][\A p \in {"T", "P"} : \A d \in Thetas :
          (LookupRuns /\ C14Pre(p, d)) => C14Post(p, d)]_vars
C14_Witness ==
    /\ LookupRan
    /\ last.err = "none"
    /\ SeqToSet(last.spec) = {"T", "h"}
    /\ slots["x"] = 1
    /\ Vapor # Absent

\* a new State(T = T, d = th), resolved
ResolveAt(T, d, th) ==
    _resolve([slots |-> [f \in AllFields |-> IF f = "T" THEN T ELSE IF f = d THEN th ELSE None],
              Liquid |-> Absent, Vapor |-> Absent], order, <<>>)

\* C15 (as claimed): after a State given T and x is resolved, a second State given the
\* same T and the theta just obtained resolves, for each theta of v, u, h, s, and
\* returns the original x (x = 0 and x = 1 included).
C15_QualityRoundTrip ==
    (LookupRan /\ last.err = "none" /\ Len(last.spec) = 2 /\ SeqToSet(last.spec) = {"T", "x"}) =>
        \A d \in Thetas :
            /\ ResolveAt(slots["T"], d, slots[d]).err = "none"
            /\ ResolveAt(slots["T"], d, slots[d]).slots["x"] = slots["x"]

\* C16: for a State given two of v, u, h, s, _resolve_at_Theta1_and_Theta2 queries both
\* grids; the result of the one query that succeeds populates the State; when both or
\* neither succeed it raises ValueError and no slot or child is changed.
SubTry(specs) == Bilinear(SubcData, specs[1], slots[specs[1]], specs[2], slots[specs[2]])
SupTry(specs) == Bilinear(SuphData, specs[1], slots[specs[1]], specs[2], slots[specs[2]])
C16Post(specs) ==
    /\ last'.grid = "both"
    /\ IF (SubTry(specs).err = "none") # (SupTry(specs).err = "none")
       THEN /\ last'.err = "none"
            /\ \A f \in _STATE_VAR_FIELDS : slots'[f] # None
       ELSE /\ last'.err = "ValueError"
            /\ UNCHANGED <<slots, Liquid, Vapor>>
C20Grid(p, d) ==
    IF slots[p] >= Critical(p) THEN last.grid = (IF p = "T" THEN "suph" ELSE "subc")
    ELSE /\ (SatInLim(p, slots[p]) /\ slots[d] < SatLiquid(d, CurveT(p, slots[p])))
               => last.grid = "subc"
         /\ (SatInLim(p, slots[p]) /\ slots[d] > SatVapor(d, CurveT(p, slots[p])))
               => last.grid = "suph"
C20_GridByTheta ==
    \A p \in {"T", "P"} : \A d \in Thetas :
        (LookupRan /\ ~last.sat /\ Len(last.spec) = 2 /\ SeqToSet(last.spec) = {p, d})
            => C20Grid(p, d)
C20_Witness ==
    /\ LookupRan
    /\ ~last.sat
    /\ SeqToSet(last.spec) = {"T", "h"}
    /\ slots["T"] = TCC
    /\ last.grid = "suph"

Ids == 1..Len(objs)
Children(i) == {objs[i].Liquid, objs[i].Vapor} \ {NoRef}
\* the last operation is a lookup() that made a saturated resolution of olast.obj
SatResolved == olast.op = "lookup" /\ olast.ran /\ olast.err = "none" /\ olast.sat

\* C12: a saturated resolution binds Liquid and Vapor to two State objects that did not
\* exist before it, distinct from each other and from the parent, with x = 0 and x = 1,
\* the parent's resolved T and P, and the saturated-liquid and saturated-vapor values
\* of v, u, h, s; no child is the child of another State or shares its cache.
ChildIsFresh(i, c) ==
    /\ c \in Ids
    /\ c > olast.nobjs
    /\ c # i
    /\ objs[c].cache # objs[i].cache
ChildHolds(i, c, x, ph) ==
    /\ objs[c].slots["x"] = x
    /\ objs[c].slots["T"] = objs[i].slots["T"]
    /\ objs[c].slots["P"] = objs[i].slots["P"]
    /\ \A d \in Thetas :
          objs[c].slots[d] = IF ph = "L" THEN SatLiquid(d, objs[i].slots["T"])
                             ELSE SatVapor(d, objs[i].slots["T"])
C12_FreshChildren ==
    /\ SatResolved =>
          /\ ChildIsFresh(olast.obj, objs[olast.obj].Liquid)
          /\ ChildIsFresh(olast.obj, objs[olast.obj].Vapor)
          /\ objs[olast.obj].Liquid # objs[olast.obj].Vapor
          /\ ChildHolds(olast.obj, objs[olast.obj].Liquid, 0, "L")
          /\ ChildHolds(olast.obj, objs[olast.obj].Vapor, XUnit, "V")
    /\ \A i \in Ids : \A j \in Ids \ {i} : Children(i) \cap Children(j) = {}
    /\ \A i \in Ids : \A j \in Ids \ {i} : objs[i].cache # objs[j].cache
C12_Witness ==
    /\ SatResolved
    /\ olast.nobjs = 3
    /\ Len(objs) = 5
    /\ objs[olast.obj].slots["x"] = XUnit

\* C17: clone(**kwargs) returns a new State whose slots are the source's except where
\* a kwarg names a slot, with a cache dict of its own, and leaves the source as it
\* was; an assignment or a lookup() on one State the caller holds changes no slot and
\* no cache content of the other.
Untouched(i) == objs'[i] = objs[i] /\ caches'[objs[i].cache] = caches[objs[i].cache]
C17Cloned ==
    olast.op = "clone" =>
        /\ olast.obj \notin {olast.other} \cup (1..olast.nobjs)
        /\ objs[olast.obj].slots = CloneSlots(objs[olast.other].slots, olast.kwargs)
        /\ objs[olast.obj].cache # objs[olast.other].cache
C17Frame ==
    /\ olast'.op = "clone" => Untouched(olast'.other)
    /\ \A h \in Handles : \A g \in Handles \ {h} :
          (olast'.op \in {"setattr", "lookup"} /\ held[h] = olast'.obj /\ held[g] # NoRef)
              => Untouched(held[g])
C17_CloneIsIndependent == [](C17Cloned) /\ [][C17Frame]_vars
C17_Witness ==
    /\ olast.op = "setattr"
    /\ olast.obj = held["b"]
    /\ held["a"] # NoRef
    /\ caches[objs[held["a"]].cache] = {"lookup"}
    /\ objs[held["b"]].slots["P"] = objs[held["a"]].slots["P"]
    /\ objs[held["b"]].slots["h"] = objs[held["a"]].slots["h"]
    /\ objs[held["b"]].slots["h"] # None

\* C18: a.delta(b) of two States that both resolve holds, for every property of
\* T, P, v, u, h, s set in both, b's value minus a's; negated, it is b.delta(a) key
\* for key (a nan entry is nan in both); and delta changes no State but by the
\* resolution of a and b.
C18Symmetric ==
    (olast.op = "delta" /\ olast.err = "none") =>
        /\ \A p \in _STATE_VAR_FIELDS :
              (objs[olast.obj].slots[p] # None /\ objs[olast.other].slots[p] # None) =>
                  /\ p \in DOMAIN olast.delta
                  /\ olast.delta[p] = Sub(objs[olast.other].slots[p], objs[olast.obj].slots[p])
        /\ DOMAIN olast.delta =
               DOMAIN delta_props(objs[olast.other].slots, objs[olast.obj].slots)
        /\ \A k \in DOMAIN olast.delta :
              Neg(olast.delta[k]) = delta_props(objs[olast.other].slots, objs[olast.obj].slots)[k]
C18Frame ==
    olast'.op = "delta" =>
        \A i \in Ids : (i \notin {olast'.obj, olast'.other} \/ "lookup" \in caches[objs[i].cache])
                           => Untouched(i)
C19_TablesBuiltOnce ==
    /\ built <= 1
    /\ \A i \in Ids : objs[i].tables = _instance
    /\ objs # <<>> => (_instance = 1 /\ built = 1)
C19_Witness ==
    /\ Len(objs) >= 4
    /\ held["b"] # NoRef
    /\ \E i \in Ids : objs[i].Vapor # NoRef
    /\ built = 1

----------------------------------------------------------------------------
(* Quality range, the theta branches of Bilinear, failed lookups *)

\* C21 (as claimed): every resolved State that has x set satisfies 0 <= x <= 1, whether
\* x was given or computed from theta; a State given an x outside [0, 1] is not resolved
\* to a state with that x.
C21_QualityInUnitInterval ==
    \A i \in Ids :
        ("lookup" \in caches[objs[i].cache] /\ objs[i].slots["x"] # None) =>
            (0 <= objs[i].slots["x"] /\ objs[i].slots["x"] <= XUnit)

\* the blocks of a grid that an anchor p = v is looked up in: for T the blocks whose
\* temperatures hold v, for P the block at v or the two blocks nearest to it
C22Blocks(grid, p, v) ==
    IF p = "T"
    THEN {Q \in GridPressures(grid) :
            ~Below(BlockTemps(grid, Q), v) /\ ~Above(BlockTemps(grid, Q), v)}
    ELSE {Q \in GridPressures(grid) :
            \/ Q = v
            \/ v \notin GridPressures(grid) /\ Q < v
                 /\ \A R \in GridPressures(grid) : R < v => R <= Q
            \/ v \notin GridPressures(grid) /\ Q > v
                 /\ \A R \in GridPressures(grid) : R > v => R >= Q}
\* the values of property d the grid covers at the anchor
C22Values(grid, p, v, d) ==
    IF p = "T"
    THEN {InterpNaN(v, Col(Filter(Data(grid), "P", Q), "T"), Col(Filter(Data(grid), "P", Q), d)) :
            Q \in C22Blocks(grid, p, v)}
    ELSE UNION {SeqToSet(Col(Filter(Data(grid), "P", Q), d)) : Q \in C22Blocks(grid, p, v)}
\* the anchor or theta lies outside what the grid covers
C22Outside(grid, p, v, d, th) ==
    \/ C22Values(grid, p, v, d) = {}
    \/ p = "P" /\ (Below(GridPressures(grid), v) \/ Above(GridPressures(grid), v))
    \/ Below(C22Values(grid, p, v, d), th)
    \/ Above(C22Values(grid, p, v, d), th)
C22Fails(grid, p, d) ==
    /\ C22Outside(grid, p, slots[p], d, slots[d]) => last.err # "none"
    /\ last.err = "none" => \A f \in _STATE_VAR_FIELDS : slots[f] # NaN

\* C22 (as claimed): a lookup() that goes through the (T, theta), (P, theta) or
\* (theta1, theta2) branch of Bilinear with theta (or the anchor) outside the envelope
\* the grid covers raises; no such lookup completes with a value clamped to an end
\* point or with nan.
C22_ThetaBranchesFailOutside ==
    (LookupRan /\ ~last.sat /\ Len(last.spec) = 2 /\ last.grid \in {"subc", "suph", "both"}) =>
        /\ Cardinality(SeqToSet(last.spec) \cap {"T", "P"}) = 1 =>
              C22Fails(last.grid, IF Has(last.spec, "T") THEN "T" ELSE "P",
                       OtherProp(last.spec, IF Has(last.spec, "T") THEN "T" ELSE "P"))
        /\ last.grid = "both" =>
              (last.err = "none" => \A f \in _STATE_VAR_FIELDS : slots[f] # NaN)

\* property d of block Q of a grid at temperature T (nan when the block does not hold T)
C23At(grid, Q, T, d) ==
    InterpNaN(T, Col(Filter(Data(grid), "P", Q), "T"), Col(Filter(Data(grid), "P", Q), d))
Within(a, lo, hi) == (Le(lo, a) /\ Le(a, hi)) \/ (Le(hi, a) /\ Le(a, lo))
\* the rows of a grid tabulated at T with property d equal to th
C23Nodes(grid, T, d, th) ==
    {i \in 1..Len(Data(grid)) : Data(grid)[i]["T"] = T /\ Data(grid)[i][d] = th}
\* two blocks whose d at T bracket th, with the resolved P and every other property
\* between the two blocks' values at T
C23Bracketed(grid, T, d, th) ==
    \E Q, R \in C22Blocks(grid, "T", T) :
        /\ Q # R
        /\ Within(th, C23At(grid, Q, T, d), C23At(grid, R, T, d))
        /\ Within(slots["P"], Q, R)
        /\ \A e \in Thetas : Within(slots[e], C23At(grid, Q, T, e), C23At(grid, R, T, e))
C23Resolved(grid, T, d, th) ==
    IF C23Nodes(grid, T, d, th) # {}
    THEN \E i \in C23Nodes(grid, T, d, th) : \A c \in ColumnSet : slots[c] = Data(grid)[i][c]
    ELSE C23Bracketed(grid, T, d, th)
\* TThBilinear at the node the State was resolved at, queried by T and each theta
C23NodeByTheta(grid) ==
    \A d \in Thetas :
        /\ TThBilinear(Data(grid), slots["T"], d, slots[d]).err = "none"
        /\ \A c \in ColumnSet :
               TThBilinear(Data(grid), slots["T"], d, slots[d]).val[c] = slots[c]

\* C23 (as claimed): a lookup() resolved by TThBilinear returns a P between the pressures
\* of two blocks whose theta at the query T bracket the query theta, with the other
\* properties between the same two blocks' values at T; at a grid node (T and theta
\* tabulated in one block) TThBilinear returns that block's P and tabulated values.
C23_TThBracketsTheta ==
    /\ (LookupRan /\ ~last.sat /\ last.err = "none" /\ last.grid \in {"subc", "suph"}
           /\ Len(last.spec) = 2 /\ Has(last.spec, "T") /\ ~Has(last.spec, "P")) =>
          C23Resolved(last.grid, slots["T"], OtherProp(last.spec, "T"),
                      slots[OtherProp(last.spec, "T")])
    /\ (LookupOfTP /\ last.err = "none" /\ NodesAt(Data(last.grid)) # {}) =>
          C23NodeByTheta(last.grid)

\* ThThBilinear at the node the State was resolved at, queried by the pair xn, yn
C24NodeByThetas(grid, xn, yn) ==
    /\ ThThBilinear(Data(grid), xn, slots[xn], yn, slots[yn]).err = "none"
    /\ \A c \in ColumnSet :
           ThThBilinear(Data(grid), xn, slots[xn], yn, slots[yn]).val[c] = slots[c]

\* C24 (as claimed): ThThBilinear, given two of v, u, h, s, returns T, P and the
\* remaining properties; at a grid node it returns that node's T, P and tabulated values.
C24_ThThNodes ==
    (LookupOfTP /\ last.err = "none" /\ NodesAt(Data(last.grid)) # {}) =>
        \A xn \in Thetas : \A yn \in Thetas \ {xn} : C24NodeByThetas(last.grid, xn, yn)

\* Bilinear on a grid with the State's values of the keys a and b, in that order
C25Try(g, a, b) == Bilinear(Data(g), a, slots[a], b, slots[b])

\* C25 (as claimed): Bilinear selects its strategy from which two properties the
\* specification contains, independent of the order of the keys: with the values of a
\* resolved State, every pair of keys gives the same result in either order.
C25_DispatchIgnoresOrder ==
    (LookupRan /\ ~last.sat /\ last.err = "none"
       /\ \A c \in ColumnSet : slots[c] # None /\ slots[c] # NaN) =>
        \A g \in {"subc", "suph"} : \A a \in ColumnSet : \A b \in ColumnSet \ {a} :
            C25Try(g, a, b) = C25Try(g, b, a)

\* the last operation is a lookup() of one of T, P (the anchor p) plus one of v, u, h, s
C26Lookup(p) ==
    /\ LookupRan
    /\ Len(last.spec) = 2
    /\ SeqToSet(last.spec) \cap {"T", "P", "x"} = {p}

\* C26 (as claimed): for one of T or P, below its critical value and within the
\* saturation table's limits, plus a property theta, a lookup() that _check_saturation
\* classifies as not saturated selects the subcooled or the superheated grid and does
\* not raise 'Specified state is saturated'; an anchor equal to the critical value is
\* classified as not saturated and resolved on a grid.
C26_ClassifierAndResolverAgree ==
    \A p \in {"T", "P"} :
        /\ (C26Lookup(p) /\ ~last.sat /\ Lt(slots[p], Critical(p)) /\ SatInLim(p, slots[p])) =>
              last.grid \in {"subc", "suph"}
        /\ (C26Lookup(p) /\ slots[p] = Critical(p)) =>
              (~last.sat /\ last.grid \in {"subc", "suph"})

\* a lookup() that raises leaves the slots, the children and _input_state as they were
\* and sets no marker
C27Frame ==
    (LookupRuns /\ last'.err # "none") =>
        /\ slots' = slots
        /\ Liquid' = Liquid
        /\ Vapor' = Vapor
        /\ input_state' = input_state
        /\ "lookup" \notin cache'
\* the lookup() after one that raised calls _resolve() again
C27Retry == (last.op = "lookup" /\ last.err # "none" /\ last'.op = "lookup") => last'.ran
C27Unmarked == (last.op = "lookup" /\ last.err # "none") => "lookup" \notin cache

\* C27: if lookup() raises, the State is left unresolved and unchanged: the 'lookup'
\* marker is absent from the cache, _input_state is not updated, and every slot T, P,
\* v, u, h, s and x holds the value it had before the call; a later lookup() attempts
\* the resolution again instead of returning as a cache hit.
C27_FailedLookupLeavesState == [](C27Unmarked) /\ [][C27Frame /\ C27Retry]_vars
C27_Witness ==
    /\ LookupRan
    /\ last.err = "ValueError"
    /\ ~last.sat
    /\ Len(last.spec) = 2
    /\ Cardinality(SeqToSet(last.spec) \cap {"T", "P"}) = 1
    /\ Cardinality(StateVarsSet) = 2
    /\ cache = {}

====
